---- MODULE Spec2Model ----
(***************************************************************************)
(* A model of the two computing pages of the valuation application:        *)
(*   pages/1_WACC_Calculator.py  - the "Calculate WACC" handler            *)
(*   pages/3_DCF_Valuation.py    - the "Build DCF Model" handler           *)
(* One run of a handler is a sequence of steps; every step that emits a    *)
(* part of the page (st.metric, st.dataframe, st.error, st.warning) is an  *)
(* action, so that what has been emitted before an abort is observable.    *)
(*                                                                         *)
(* Numbers: the code computes in IEEE doubles.  The model computes in      *)
(* exact rationals [n, d] (d > 0, lowest terms), so every equation and     *)
(* inequality below is about the real-number value of the expression the   *)
(* code evaluates, not about its rounding.                                 *)
(* Text: a text is a sequence of one-character strings.                    *)
(***************************************************************************)
EXTENDS Integers, Sequences, FiniteSets, TLC

(***************************************************************************)
(* Exact arithmetic                                                        *)
(***************************************************************************)
Abs(x) == IF x < 0 THEN -x ELSE x

RECURSIVE GCD(_, _)
GCD(a, b) == IF b = 0 THEN a ELSE GCD(b, a % b)

\* a local that has not been assigned, a dictionary key that is absent, a
\* float that is not finite (a division by zero of numpy floats)
NoVal == [n |-> 0, d |-> 0]

\* the rational n/d in lowest terms with a positive denominator
Rat(n, d) ==
    IF d = 0 THEN NoVal
    ELSE LET g == GCD(Abs(n), Abs(d))
             s == IF d < 0 THEN -1 ELSE 1
         IN  [n |-> (s * n) \div g, d |-> (s * d) \div g]

R(k) == [n |-> k, d |-> 1]

\* sums are formed over the least common denominator
RAdd(a, b) ==
    IF a.d = 0 \/ b.d = 0 THEN NoVal
    ELSE LET g == GCD(a.d, b.d)
         IN  Rat(a.n * (b.d \div g) + b.n * (a.d \div g), a.d * (b.d \div g))
RNeg(a) == [n |-> -a.n, d |-> a.d]
RSub(a, b) == RAdd(a, RNeg(b))
RMul(a, b) ==
    IF a.d = 0 \/ b.d = 0 THEN NoVal
    ELSE LET x == Rat(a.n, b.d)
             y == Rat(b.n, a.d)
         IN  [n |-> x.n * y.n, d |-> x.d * y.d]
\* a / b; not finite for b = 0
RDiv(a, b) == RMul(a, Rat(b.d, b.n))

\* the order of an/ad and bn/bd (an, bn >= 0; ad, bd > 0) as -1, 0 or 1, by
\* integer parts and then the reciprocals of the fractional parts, so that no
\* product of a numerator and a denominator is formed
RECURSIVE CmpPos(_, _, _, _)
CmpPos(an, ad, bn, bd) ==
    LET qa == an \div ad
        qb == bn \div bd
        ra == an % ad
        rb == bn % bd
    IN  IF qa < qb THEN -1
        ELSE IF qa > qb THEN 1
        ELSE IF ra = 0 /\ rb = 0 THEN 0
        ELSE IF ra = 0 THEN -1
        ELSE IF rb = 0 THEN 1
        ELSE -CmpPos(ad, ra, bd, rb)

\* -1, 0, 1, or 2 when one of the two is not a finite number
RCmp(a, b) ==
    IF a.d = 0 \/ b.d = 0 THEN 2
    ELSE IF a.n < 0 /\ b.n >= 0 THEN -1
    ELSE IF a.n >= 0 /\ b.n < 0 THEN 1
    ELSE IF a.n < 0 THEN CmpPos(-b.n, b.d, -a.n, a.d)
    ELSE CmpPos(a.n, a.d, b.n, b.d)

RLt(a, b) == RCmp(a, b) = -1
RLe(a, b) == RCmp(a, b) \in {-1, 0}

\* Variant: the power with the exponent's sign reversed.
RECURSIVE InversePower(_, _)
InversePower(a, k) == IF k = 0 THEN R(1) ELSE RDiv(InversePower(a, k - 1), a)

RECURSIVE RPow(_, _)
RPow(a, k) == IF k = 0 THEN R(1) ELSE RMul(a, RPow(a, k - 1))

RECURSIVE RSum(_)
RSum(s) == IF s = <<>> THEN R(0) ELSE RAdd(Head(s), RSum(Tail(s)))

(***************************************************************************)
(* Text operations: str.strip, str.lower, str.split(','), float            *)
(***************************************************************************)
UpperCase == <<"A", "B", "C", "D", "E", "F", "G", "H", "I", "J", "K", "L", "M",
               "N", "O", "P", "Q", "R", "S", "T", "U", "V", "W", "X", "Y", "Z">>
LowerCase == <<"a", "b", "c", "d", "e", "f", "g", "h", "i", "j", "k", "l", "m",
               "n", "o", "p", "q", "r", "s", "t", "u", "v", "w", "x", "y", "z">>
Digits == <<"0", "1", "2", "3", "4", "5", "6", "7", "8", "9">>

IsSpace(c) == c \in {" ", "\t", "\n"}

RECURSIVE LStrip(_)
LStrip(s) == IF s # <<>> /\ IsSpace(Head(s)) THEN LStrip(Tail(s)) ELSE s

RECURSIVE RStrip(_)
RStrip(s) ==
    IF s # <<>> /\ IsSpace(s[Len(s)]) THEN RStrip(SubSeq(s, 1, Len(s) - 1)) ELSE s

\* str.strip()
Strip(s) == RStrip(LStrip(s))

LowerChar(c) ==
    IF \E i \in 1..Len(UpperCase) : UpperCase[i] = c
    THEN LowerCase[CHOOSE i \in 1..Len(UpperCase) : UpperCase[i] = c]
    ELSE c

\* str.lower()
Lower(s) == [i \in 1..Len(s) |-> LowerChar(s[i])]

(***************************************************************************)
(* The credit-spread table and its lookup (1_WACC_Calculator.py)           *)
(***************************************************************************)
\* Variant: the last band carries the first band's label, in lower case and
\* after a blank.
RelabelledSpreads == <<
    [GreaterThan |-> R(-100000), LessThan |-> Rat(199999, 1000000),
     Rating |-> <<"D", "2", "/", "D">>, Spread |-> Rat(1900, 100)],
    [GreaterThan |-> Rat(2, 10), LessThan |-> Rat(649999, 1000000),
     Rating |-> <<"C", "2", "/", "C">>, Spread |-> Rat(1550, 100)],
    [GreaterThan |-> Rat(65, 100), LessThan |-> Rat(799999, 1000000),
     Rating |-> <<"C", "a", "2", "/", "C", "C">>, Spread |-> Rat(1010, 100)],
    [GreaterThan |-> Rat(8, 10), LessThan |-> Rat(1249999, 1000000),
     Rating |-> <<"C", "a", "a", "/", "C", "C", "C">>, Spread |-> Rat(728, 100)],
    [GreaterThan |-> Rat(125, 100), LessThan |-> Rat(1499999, 1000000),
     Rating |-> <<"B", "3", "/", "B", "-">>, Spread |-> Rat(442, 100)],
    [GreaterThan |-> Rat(15, 10), LessThan |-> Rat(1749999, 1000000),
     Rating |-> <<"B", "2", "/", "B">>, Spread |-> Rat(300, 100)],
    [GreaterThan |-> Rat(175, 100), LessThan |-> Rat(1999999, 1000000),
     Rating |-> <<"B", "1", "/", "B", "+">>, Spread |-> Rat(261, 100)],
    [GreaterThan |-> Rat(20, 10), LessThan |-> Rat(22499999, 10000000),
     Rating |-> <<"B", "a", "2", "/", "B", "B">>, Spread |-> Rat(183, 100)],
    [GreaterThan |-> Rat(225, 100), LessThan |-> Rat(249999, 100000),
     Rating |-> <<"B", "a", "1", "/", "B", "B", "+">>, Spread |-> Rat(155, 100)],
    [GreaterThan |-> Rat(25, 10), LessThan |-> Rat(2999999, 1000000),
     Rating |-> <<"B", "a", "a", "2", "/", "B", "B", "B">>, Spread |-> Rat(120, 100)],
    [GreaterThan |-> Rat(30, 10), LessThan |-> Rat(4249999, 1000000),
     Rating |-> <<"A", "3", "/", "A", "-">>, Spread |-> Rat(95, 100)],
    [GreaterThan |-> Rat(425, 100), LessThan |-> Rat(5499999, 1000000),
     Rating |-> <<"A", "2", "/", "A">>, Spread |-> Rat(85, 100)],
    [GreaterThan |-> Rat(55, 10), LessThan |-> Rat(6499999, 1000000),
     Rating |-> <<"A", "1", "/", "A", "+">>, Spread |-> Rat(77, 100)],
    [GreaterThan |-> Rat(65, 10), LessThan |-> Rat(8499999, 1000000),
     Rating |-> <<"A", "a", "2", "/", "A", "A">>, Spread |-> Rat(60, 100)],
    [GreaterThan |-> Rat(85, 10), LessThan |-> R(100000),
     Rating |-> <<" ", "d", "2", "/", "d">>, Spread |-> Rat(45, 100)]
    >>

\* Variant: the lower limit of the second band mistyped as 0.02.
MistypedLimitSpreads == <<
    [GreaterThan |-> R(-100000), LessThan |-> Rat(199999, 1000000),
     Rating |-> <<"D", "2", "/", "D">>, Spread |-> Rat(1900, 100)],
    [GreaterThan |-> Rat(2, 100), LessThan |-> Rat(649999, 1000000),
     Rating |-> <<"C", "2", "/", "C">>, Spread |-> Rat(1550, 100)],
    [GreaterThan |-> Rat(65, 100), LessThan |-> Rat(799999, 1000000),
     Rating |-> <<"C", "a", "2", "/", "C", "C">>, Spread |-> Rat(1010, 100)],
    [GreaterThan |-> Rat(8, 10), LessThan |-> Rat(1249999, 1000000),
     Rating |-> <<"C", "a", "a", "/", "C", "C", "C">>, Spread |-> Rat(728, 100)],
    [GreaterThan |-> Rat(125, 100), LessThan |-> Rat(1499999, 1000000),
     Rating |-> <<"B", "3", "/", "B", "-">>, Spread |-> Rat(442, 100)],
    [GreaterThan |-> Rat(15, 10), LessThan |-> Rat(1749999, 1000000),
     Rating |-> <<"B", "2", "/", "B">>, Spread |-> Rat(300, 100)],
    [GreaterThan |-> Rat(175, 100), LessThan |-> Rat(1999999, 1000000),
     Rating |-> <<"B", "1", "/", "B", "+">>, Spread |-> Rat(261, 100)],
    [GreaterThan |-> Rat(20, 10), LessThan |-> Rat(22499999, 10000000),
     Rating |-> <<"B", "a", "2", "/", "B", "B">>, Spread |-> Rat(183, 100)],
    [GreaterThan |-> Rat(225, 100), LessThan |-> Rat(249999, 100000),
     Rating |-> <<"B", "a", "1", "/", "B", "B", "+">>, Spread |-> Rat(155, 100)],
    [GreaterThan |-> Rat(25, 10), LessThan |-> Rat(2999999, 1000000),
     Rating |-> <<"B", "a", "a", "2", "/", "B", "B", "B">>, Spread |-> Rat(120, 100)],
    [GreaterThan |-> Rat(30, 10), LessThan |-> Rat(4249999, 1000000),
     Rating |-> <<"A", "3", "/", "A", "-">>, Spread |-> Rat(95, 100)],
    [GreaterThan |-> Rat(425, 100), LessThan |-> Rat(5499999, 1000000),
     Rating |-> <<"A", "2", "/", "A">>, Spread |-> Rat(85, 100)],
    [GreaterThan |-> Rat(55, 10), LessThan |-> Rat(6499999, 1000000),
     Rating |-> <<"A", "1", "/", "A", "+">>, Spread |-> Rat(77, 100)],
    [GreaterThan |-> Rat(65, 10), LessThan |-> Rat(8499999, 1000000),
     Rating |-> <<"A", "a", "2", "/", "A", "A">>, Spread |-> Rat(60, 100)],
    [GreaterThan |-> Rat(85, 10), LessThan |-> R(100000),
     Rating |-> <<"A", "a", "a", "/", "A", "A", "A">>, Spread |-> Rat(45, 100)]
    >>

credit_spreads == <<
    [GreaterThan |-> R(-100000), LessThan |-> Rat(199999, 1000000),
     Rating |-> <<"D", "2", "/", "D">>, Spread |-> Rat(1900, 100)],
    [GreaterThan |-> Rat(2, 10), LessThan |-> Rat(649999, 1000000),
     Rating |-> <<"C", "2", "/", "C">>, Spread |-> Rat(1550, 100)],
    [GreaterThan |-> Rat(65, 100), LessThan |-> Rat(799999, 1000000),
     Rating |-> <<"C", "a", "2", "/", "C", "C">>, Spread |-> Rat(1010, 100)],
    [GreaterThan |-> Rat(8, 10), LessThan |-> Rat(1249999, 1000000),
     Rating |-> <<"C", "a", "a", "/", "C", "C", "C">>, Spread |-> Rat(728, 100)],
    [GreaterThan |-> Rat(125, 100), LessThan |-> Rat(1499999, 1000000),
     Rating |-> <<"B", "3", "/", "B", "-">>, Spread |-> Rat(442, 100)],
    [GreaterThan |-> Rat(15, 10), LessThan |-> Rat(1749999, 1000000),
     Rating |-> <<"B", "2", "/", "B">>, Spread |-> Rat(300, 100)],
    [GreaterThan |-> Rat(175, 100), LessThan |-> Rat(1999999, 1000000),
     Rating |-> <<"B", "1", "/", "B", "+">>, Spread |-> Rat(261, 100)],
    [GreaterThan |-> Rat(20, 10), LessThan |-> Rat(22499999, 10000000),
     Rating |-> <<"B", "a", "2", "/", "B", "B">>, Spread |-> Rat(183, 100)],
    [GreaterThan |-> Rat(225, 100), LessThan |-> Rat(249999, 100000),
     Rating |-> <<"B", "a", "1", "/", "B", "B", "+">>, Spread |-> Rat(155, 100)],
    [GreaterThan |-> Rat(25, 10), LessThan |-> Rat(2999999, 1000000),
     Rating |-> <<"B", "a", "a", "2", "/", "B", "B", "B">>, Spread |-> Rat(120, 100)],
    [GreaterThan |-> Rat(30, 10), LessThan |-> Rat(4249999, 1000000),
     Rating |-> <<"A", "3", "/", "A", "-">>, Spread |-> Rat(95, 100)],
    [GreaterThan |-> Rat(425, 100), LessThan |-> Rat(5499999, 1000000),
     Rating |-> <<"A", "2", "/", "A">>, Spread |-> Rat(85, 100)],
    [GreaterThan |-> Rat(55, 10), LessThan |-> Rat(6499999, 1000000),
     Rating |-> <<"A", "1", "/", "A", "+">>, Spread |-> Rat(77, 100)],
    [GreaterThan |-> Rat(65, 10), LessThan |-> Rat(8499999, 1000000),
     Rating |-> <<"A", "a", "2", "/", "A", "A">>, Spread |-> Rat(60, 100)],
    [GreaterThan |-> Rat(85, 10), LessThan |-> R(100000),
     Rating |-> <<"A", "a", "a", "/", "A", "A", "A">>, Spread |-> Rat(45, 100)]
    >>

\* get_credit_spread: the first band whose label equals the rating after
\* strip and lower gives Spread / 100; with no such band a warning and 0.0.
\* The result is the pair (value returned, number of st.warning calls).
RECURSIVE ScanSpreads(_, _)
ScanSpreads(rating, entries) ==
    IF entries = <<>>
    THEN [spread |-> R(0), warned |-> 1]
    ELSE IF Lower(Strip(Head(entries).Rating)) = Lower(Strip(rating))
         THEN [spread |-> RDiv(Head(entries).Spread, R(100)), warned |-> 0]
         ELSE ScanSpreads(rating, Tail(entries))

\* Variant: the labels compared as written, without strip and lower.
RECURSIVE ExactLabelScan(_, _)
ExactLabelScan(rating, table) ==
    IF table = <<>>
    THEN [spread |-> R(0), warned |-> 1]
    ELSE IF Head(table).Rating = rating
         THEN [spread |-> RDiv(Head(table).Spread, R(100)), warned |-> 0]
         ELSE ExactLabelScan(rating, Tail(table))

\* Variant: the fallback to 0.0 made without the st.warning call.
SilentFallbackScan(rating, table) ==
    [spread |-> ScanSpreads(rating, table).spread, warned |-> 0]

get_credit_spread(rating, table) == ScanSpreads(rating, table)

(***************************************************************************)
(* State                                                                   *)
(***************************************************************************)
VARIABLES
    page,       \* the script being run: "none", "wacc" or "dcf"
    pc,         \* the position of the run in its script
    out,        \* the report sections emitted so far, in order
    errors,     \* the st.error messages emitted so far, in order
    warnings,   \* the st.warning messages emitted so far, in order
    requests,   \* the Market Data Provider calls made so far, in order
    \* sidebar of the WACC page
    rf, emrp, firm_rating, marg_tax_rate,
    \* locals of the "Calculate WACC" handler
    market_cap, total_debt, w_E, w_D,
    stock_returns, index_returns, intercept,
    beta, beta_lower, beta_upper, r_squared,
    cost_of_equity, cost_of_equity_lower, cost_of_equity_upper,
    credit_spread, cost_of_debt,
    wacc, wacc_lower, wacc_upper,
    \* sidebar of the DCF page
    time_horizon, ss_growth, eff_tax_rate,
    wacc_lower_input, wacc_mid_input, wacc_upper_input,
    growth_pattern_str, ebit_margin_str, reinv_rate_str,
    \* locals of the "Build DCF Model" handler (total_debt is shared)
    growth_pattern, ebit_margin, reinv_rate_pattern,
    shares_outstanding, total_cash, ltm_revenue,
    projections,    \* the projection rows, one per year
    pv_columns,     \* the 'PV of FCF (<scenario>)' columns added to projections
    results,        \* the scenario records appended so far
    current_price, lower_price, mid_price, upper_price,
    valuation_msg   \* the verdict shown: "", "Undervalued", "Overvalued", "Fairly Valued"

sidebarW == <<rf, emrp, firm_rating, marg_tax_rate>>
capitalW == <<market_cap, total_debt, w_E, w_D>>
returnsW == <<stock_returns, index_returns>>
fitW     == <<intercept, beta, beta_lower, beta_upper, r_squared,
              cost_of_equity, cost_of_equity_lower, cost_of_equity_upper>>
equityW  == <<returnsW, fitW>>
debtW    == <<credit_spread, cost_of_debt>>
waccW    == <<wacc, wacc_lower, wacc_upper>>
localsW  == <<capitalW, equityW, debtW, waccW>>
console  == <<out, errors, warnings>>

sidebarD == <<time_horizon, ss_growth, eff_tax_rate,
              wacc_lower_input, wacc_mid_input, wacc_upper_input,
              growth_pattern_str, ebit_margin_str, reinv_rate_str>>
parsedD  == <<growth_pattern, ebit_margin, reinv_rate_pattern>>
fetchedD == <<shares_outstanding, total_cash, ltm_revenue>>
valuedD  == <<projections, pv_columns, results>>
pricesD  == <<current_price, lower_price, mid_price, upper_price, valuation_msg>>
localsD  == <<parsedD, fetchedD, valuedD, pricesD>>

vars == <<page, pc, console, requests, sidebarW, localsW, sidebarD, localsD>>

\* an st.error message: its kind and the values its text carries
Err(kind, name, detail) == [kind |-> kind, name |-> name, detail |-> detail]

\* the run is over: it ran to its end, st.stop() ended it, or the handler's
\* "except Exception" reported an exception
Ended == pc \in {"done", "stopped", "failed"}

scale_factor == 1000000

\* dict.get(key, default) on the provider's info dictionary
Get(info, key, default) == IF info[key] = NoVal THEN default ELSE info[key]

(***************************************************************************)
(* Ordinary least squares with an intercept (sm.OLS(y, add_constant(x)))   *)
(***************************************************************************)
\* Series.pct_change().dropna(): one return per consecutive pair of closes
pct_change(closes) ==
    [i \in 1..(IF Len(closes) = 0 THEN 0 ELSE Len(closes) - 1) |->
        RSub(RDiv(R(closes[i + 1]), R(closes[i])), R(1))]

Minus(series, c) == [i \in 1..Len(series) |-> RSub(series[i], c)]

Mean(s) == RDiv(RSum(s), R(Len(s)))

\* sum of (a[i] - ma) * (b[i] - mb)
CoSum(a, ma, b, mb) ==
    RSum([i \in 1..Len(a) |-> RMul(RSub(a[i], ma), RSub(b[i], mb))])

\* Variant: only an empty regressor raises, the lengths are not compared.
RaisesOnEmptyOnly(y, x) == Len(x) = 0

\* the fit raises for empty or unaligned series
OLSRaises(y, x) == Len(x) = 0 \/ Len(y) # Len(x)

\* Variant: the roles of the two series exchanged, x regressed on y.
OLSOfXOnY(y, x) ==
    LET mx    == Mean(x)
        my    == Mean(y)
        sxx   == CoSum(x, mx, x, mx)
        sxy   == CoSum(x, mx, y, my)
        syy   == CoSum(y, my, y, my)
        slope == RDiv(sxy, syy)
        const == RSub(mx, RMul(slope, my))
        ssr   == RSub(sxx, RMul(slope, sxy))
    IN  [const |-> const, slope |-> slope, ssr |-> ssr,
         rsquared |-> RSub(R(1), RDiv(ssr, sxx))]

\* closed-form fit of y = const + slope * x, for series in which x is not
\* constant; for a constant y the centered total sum of squares is 0 and the
\* R-squared is 1 - 0/0, not a number
OLS(y, x) ==
    LET mx    == Mean(x)
        my    == Mean(y)
        sxx   == CoSum(x, mx, x, mx)
        sxy   == CoSum(x, mx, y, my)
        syy   == CoSum(y, my, y, my)
        slope == RDiv(sxy, sxx)
        const == RSub(my, RMul(slope, mx))
        ssr   == RSub(syy, RMul(slope, sxy))
    IN  [const |-> const, slope |-> slope, ssr |-> ssr,
         rsquared |-> RSub(R(1), RDiv(ssr, syy))]

(***************************************************************************)
(* Inputs of a WACC run: the sidebar and the provider's answers            *)
(***************************************************************************)
UpperChar(c) ==
    IF \E i \in 1..Len(LowerCase) : LowerCase[i] = c
    THEN UpperCase[CHOOSE i \in 1..Len(LowerCase) : LowerCase[i] = c]
    ELSE c

Upper(s) == [i \in 1..Len(s) |-> UpperChar(s[i])]

Labels == {credit_spreads[i].Rating : i \in 1..Len(credit_spreads)}

\* every band label as written, in lower case between blanks, and in capitals
MatchingRatings ==
    UNION {{L, <<" ">> \o Lower(L) \o <<"\t">>, Upper(L)} : L \in Labels}

\* texts that are no band label: empty, a bare agency grade, an inner blank,
\* a label with a character missing
OtherRatings ==
    {<<>>, <<"B", "B", "B">>, <<"A", "2", " ", "/", "A">>, <<"A", "3", "/", "A">>}

RatingChoices == MatchingRatings \cup OtherRatings

RfChoices   == {R(0), Rat(1, 20)}      \* 0% .. 20%
EmrpChoices == {R(0), Rat(1, 10)}      \* 0% .. 20%
TaxChoicesW == {R(0), Rat(1, 4)}       \* 0% .. 100%

\* ticker.info of the WACC page: a key is absent (NoVal) or holds a number;
\* the provider's numbers are not validated by the code, so any sign occurs
InfoChoicesW ==
    [marketCap : {NoVal, R(0), R(1000000), R(3000000)},
     totalDebt : {NoVal, R(0), R(1000000), R(-3000000)}]

\* monthly closes of the stock and of the index (yf.download(...)["Close"])
PriceChoices ==
    { [stock |-> <<100, 120, 96, 96>>, index |-> <<100, 110, 99, 99>>],   \* exact fit
      [stock |-> <<100, 110, 110, 99>>, index |-> <<100, 110, 99, 99>>],  \* noisy fit
      [stock |-> <<100, 90, 99, 99>>, index |-> <<100, 110, 99, 99>>],    \* negative slope
      [stock |-> <<100, 100, 100, 100>>, index |-> <<100, 110, 99, 99>>], \* flat stock
      [stock |-> <<>>, index |-> <<>>],                                   \* nothing returned
      [stock |-> <<100, 120, 96, 96>>, index |-> <<100, 110, 99>>] }      \* unequal lengths

\* t-quantile times standard error of the slope: 0 for an exact fit, and
\* otherwise some positive number (the square root is not a rational)
HalfWidths(fit) == IF fit.ssr.n = 0 THEN {R(0)} ELSE {Rat(1, 2), R(1)}

(***************************************************************************)
(* The "Calculate WACC" handler (1_WACC_Calculator.py, lines 77-247)       *)
(***************************************************************************)
\* the except-clause of the handler: st.error("An error occurred: ...")
Except == /\ errors' = Append(errors, Err("exception", "", <<>>))
          /\ pc' = "failed"

\* st.stop() after an st.error
Stop(e) == /\ errors' = Append(errors, e)
           /\ pc' = "stopped"

\* the button is pressed: the script runs from the top with the sidebar's values
ClickCalculateWACC ==
    /\ pc = "idle"
    /\ page' = "wacc"
    /\ pc' = "w_fetch"
    /\ out' = <<>> /\ errors' = <<>> /\ warnings' = <<>> /\ requests' = <<>>
    /\ rf' \in RfChoices
    /\ emrp' \in EmrpChoices
    /\ firm_rating' \in RatingChoices
    /\ marg_tax_rate' \in TaxChoicesW
    /\ UNCHANGED <<localsW, sidebarD, localsD>>

\* Variant: the weight taken relative to the equity alone.
WeightOfEquityOnly(value, equity, debt) == RDiv(value, equity)

\* lines 94-95: value / (market_cap + total_debt)
WeightOf(value, equity, debt) == RDiv(value, RAdd(equity, debt))

\* lines 81-114: market cap and debt, the weights, section 1 of the page
WaccCapitalStructure ==
    /\ pc = "w_fetch"
    /\ requests' = Append(requests, "info")
    /\ \E info \in InfoChoicesW :
        LET mc == RDiv(Get(info, "marketCap", R(0)), R(scale_factor))
            td == RDiv(Get(info, "totalDebt", R(0)), R(scale_factor))
            total == RAdd(mc, td)
        IN  /\ market_cap' = mc
            /\ total_debt' = td
            /\ IF mc = R(0)
               THEN /\ Stop(Err("no_data", "market_cap", <<>>))
                    /\ UNCHANGED <<w_E, w_D, out>>
               ELSE IF total = R(0)
               THEN /\ Except                      \* ZeroDivisionError
                    /\ UNCHANGED <<w_E, w_D, out>>
               ELSE /\ w_E' = WeightOf(mc, mc, td)
                    /\ w_D' = WeightOf(td, mc, td)
                    /\ out' = Append(out, "capital_structure")
                    /\ pc' = "w_beta"
                    /\ UNCHANGED errors
    /\ UNCHANGED <<page, warnings, sidebarW, equityW, debtW, waccW, sidebarD, localsD>>

\* lines 119-175: the price history, the regression, section 2 of the page
WaccCostOfEquity ==
    /\ pc = "w_beta"
    /\ requests' = requests \o <<"download_stock", "download_index">>
    /\ \E prices \in PriceChoices :
        /\ stock_returns' = Minus(pct_change(prices.stock), rf)
        /\ index_returns' = Minus(pct_change(prices.index), rf)
        /\  IF OLSRaises(stock_returns', index_returns')
            THEN /\ Except
                 /\ UNCHANGED <<fitW, out>>
            ELSE LET fit == OLS(stock_returns', index_returns') IN
                 \E h \in HalfWidths(fit) :
                    /\ intercept' = fit.const
                    /\ beta' = fit.slope
                    /\ beta_lower' = RSub(fit.slope, h)
                    /\ beta_upper' = RAdd(fit.slope, h)
                    /\ r_squared' = fit.rsquared
                    /\ cost_of_equity' = RAdd(rf, RMul(beta', emrp))
                    /\ cost_of_equity_lower' = RAdd(rf, RMul(beta_lower', emrp))
                    /\ cost_of_equity_upper' = RAdd(rf, RMul(beta_upper', emrp))
                    /\ out' = Append(out, "cost_of_equity")
                    /\ pc' = "w_debt"
                    /\ UNCHANGED errors
    /\ UNCHANGED <<page, warnings, sidebarW, capitalW, debtW, waccW, sidebarD, localsD>>

\* lines 178-189: the spread lookup (with its warning), section 3 of the page
WaccCostOfDebt ==
    /\ pc = "w_debt"
    /\ LET found == get_credit_spread(firm_rating, credit_spreads) IN
        /\ credit_spread' = found.spread
        /\ cost_of_debt' = RAdd(rf, found.spread)
        /\ warnings' = IF found.warned = 1
                       THEN Append(warnings, "no_spread_found")
                       ELSE warnings
    /\ out' = Append(out, "cost_of_debt")
    /\ pc' = "w_wacc"
    /\ UNCHANGED <<page, errors, requests, sidebarW, capitalW, equityW, waccW,
                   sidebarD, localsD>>

\* Variant: the debt leg taken before tax.
WACCOfPreTaxDebt(ke) ==
    RAdd(RMul(w_E, ke), RMul(w_D, cost_of_debt))

\* lines 194-196: w_E * ke + w_D * cost_of_debt * (1 - marg_tax_rate)
WACCOf(ke) ==
    RAdd(RMul(w_E, ke),
         RMul(RMul(w_D, cost_of_debt), RSub(R(1), marg_tax_rate)))

\* lines 192-243: the three WACC values, section 4, the summary, the download
WaccFinal ==
    /\ pc = "w_wacc"
    /\ wacc' = WACCOf(cost_of_equity)
    /\ wacc_lower' = WACCOf(cost_of_equity_lower)
    /\ wacc_upper' = WACCOf(cost_of_equity_upper)
    /\ out' = Append(out, "wacc")
    /\ pc' = "done"
    /\ UNCHANGED <<page, errors, warnings, requests, sidebarW, capitalW, equityW,
                   debtW, sidebarD, localsD>>

(***************************************************************************)
(* Parsing of the projection patterns (3_DCF_Valuation.py, lines 87-89)    *)
(***************************************************************************)
HasComma(s) == \E i \in 1..Len(s) : s[i] = ","
FirstComma(s) == CHOOSE i \in 1..Len(s) : s[i] = "," /\ \A j \in 1..(i - 1) : s[j] # ","

\* text.split(','): the pieces between commas; a text without comma is one piece
RECURSIVE Split(_)
Split(s) ==
    IF ~HasComma(s) THEN <<s>>
    ELSE <<SubSeq(s, 1, FirstComma(s) - 1)>>
         \o Split(SubSeq(s, FirstComma(s) + 1, Len(s)))

IsDigit(c) == \E i \in 1..Len(Digits) : Digits[i] = c
DigitValue(c) == (CHOOSE i \in 1..Len(Digits) : Digits[i] = c) - 1

Unsigned(s) == IF s # <<>> /\ Head(s) \in {"-", "+"} THEN Tail(s) ELSE s
DotCount(s) == Cardinality({i \in 1..Len(s) : s[i] = "."})

\* Variant: a piece without digits (empty, blank) is read as a number too.
DigitlessAccepted(tok) ==
    LET body == Unsigned(Strip(tok))
    IN  /\ \A i \in 1..Len(body) : IsDigit(body[i]) \/ body[i] = "."
        /\ DotCount(body) <= 1

\* the texts float() accepts, over the characters digit, sign, point, blank
\* and the letter x: blanks around, one optional sign, digits with at most
\* one point (exponents and the spellings of nan and infinity, which float()
\* accepts too, need other letters)
IsFloatText(tok) ==
    LET body == Unsigned(Strip(tok))
    IN  /\ \E i \in 1..Len(body) : IsDigit(body[i])
        /\ \A i \in 1..Len(body) : IsDigit(body[i]) \/ body[i] = "."
        /\ DotCount(body) <= 1

RECURSIVE DigitsValue(_, _)
DigitsValue(s, acc) ==
    IF s = <<>> THEN acc
    ELSE IF Head(s) = "." THEN DigitsValue(Tail(s), acc)
    ELSE DigitsValue(Tail(s), 10 * acc + DigitValue(Head(s)))

\* the number of digits after the decimal point
Decimals(s) ==
    IF DotCount(s) = 0 THEN 0
    ELSE Len(s) - (CHOOSE i \in 1..Len(s) : s[i] = ".")

\* float(tok) for a text float() accepts
FloatOf(tok) ==
    LET t    == Strip(tok)
        body == Unsigned(t)
        mag  == Rat(DigitsValue(body, 0), RPow(R(10), Decimals(body)).n)
    IN  IF t # <<>> /\ Head(t) = "-" THEN RNeg(mag) ELSE mag

\* [float(x.strip())/100 for x in text.split(',')]: the list, or a ValueError
ParseRaises(text) ==
    LET toks == Split(text) IN \E i \in 1..Len(toks) : ~IsFloatText(toks[i])
ParsePattern(text) ==
    LET toks == Split(text)
    IN  [i \in 1..Len(toks) |-> RDiv(FloatOf(toks[i]), R(100))]

(***************************************************************************)
(* Inputs of a DCF run: the sidebar and the provider's answers             *)
(***************************************************************************)
MinHorizon == 5     \* the sidebar's smallest horizon
MaxHorizon == 5     \* the largest horizon explored (the sidebar allows 15)

RECURSIVE NatText(_)
NatText(k) ==
    IF k < 10 THEN <<Digits[k + 1]>>
    ELSE NatText(k \div 10) \o <<Digits[(k % 10) + 1]>>

\* the decimal text of an integer
NumText(k) == IF k < 0 THEN <<"-">> \o NatText(-k) ELSE NatText(k)

\* pieces joined with ", " as in the sidebar's default texts
RECURSIVE Join(_)
Join(toks) ==
    IF Len(toks) = 0 THEN <<>>
    ELSE IF Len(toks) = 1 THEN toks[1]
    ELSE toks[1] \o <<",", " ">> \o Join(Tail(toks))

\* a text of k pieces: a first, a second, and the same piece for the later years
PatternText(first, second, rest, k) ==
    Join([i \in 1..k |-> IF i = 1 THEN first ELSE IF i = 2 THEN second ELSE rest])

GrowthTexts(N) ==
    { PatternText(NumText(100), NumText(-50), NumText(0), N),
      PatternText(NumText(0), <<"5", "0", ".", "0">>, NumText(0), N),
      PatternText(NumText(100), NumText(-50), NumText(0), N - 1),       \* too short
      PatternText(NumText(100), <<"x">>, NumText(0), N) }               \* not a number

MarginTexts(N) ==
    { PatternText(NumText(50), NumText(50), NumText(50), N),
      PatternText(NumText(50), NumText(-50), NumText(50), N),
      PatternText(NumText(50), NumText(50), NumText(50), N + 1),        \* too long
      PatternText(NumText(50), <<" ">>, NumText(50), N) }               \* a blank piece

ReinvTexts(N) ==
    { PatternText(NumText(50), NumText(50), NumText(50), N),
      PatternText(NumText(100), NumText(50), NumText(50), N),
      PatternText(NumText(200), NumText(200), NumText(200), N),
      PatternText(NumText(50), NumText(50), NumText(50), N - 1),        \* too short
      PatternText(NumText(50), NumText(50), NumText(50), N) \o <<",">> } \* trailing comma

GrowthChoices == {R(0), Rat(1, 10)}            \* 0% .. 10%
TaxChoicesD   == {Rat(1, 2), R(1)}             \* 0% .. 100%
WaccChoices   == {R(0), Rat(1, 10), Rat(1, 2)} \* 0% .. 50%

\* ticker.info of the DCF page
InfoChoicesD ==
    [sharesOutstanding : {NoVal, R(0), R(10), R(-10)},
     totalDebt : {NoVal, R(0), R(40)},
     totalCash : {NoVal, R(20)}]

\* ticker.quarterly_income_stmt: the request fails, or gives the 'Total
\* Revenue' of the quarters it has, oldest first (none, two, five)
QuarterlyChoices ==
    { [raises |-> TRUE, revenue |-> <<>>],
      [raises |-> FALSE, revenue |-> <<>>],
      [raises |-> FALSE, revenue |-> <<R(50), R(50)>>],
      [raises |-> FALSE, revenue |-> <<R(20), R(25), R(25), R(25), R(25)>>] }

\* ticker.history(period="1d"): no price (a failure, an empty frame), or the close
CurrentPriceChoices == {NoVal, R(1), R(1000)}

\* ticker.history(period="1y")
HistoryChoices == {"ok", "empty", "raises"}

(***************************************************************************)
(* The projection and the valuation of one scenario                        *)
(***************************************************************************)
RECURSIVE Prod(_)
Prod(s) == IF s = <<>> THEN R(1) ELSE RMul(Head(s), Prod(Tail(s)))

\* Variant: each entry alone, the products not accumulated.
Uncumulated(s) == [t \in 1..Len(s) |-> s[t]]

\* Series.cumprod(): the product of the entries up to each position
cumprod(s) == [t \in 1..Len(s) |-> Prod(SubSeq(s, 1, t))]

\* Variant: a reinvestment rate above 100% is taken as 100%.
ProjectionCapped(revenue0, growth, margin, reinv, tax) ==
    LET factor == cumprod([t \in 1..Len(growth) |-> RAdd(R(1), growth[t])])
    IN  [t \in 1..Len(growth) |->
            LET revenue == RMul(revenue0, factor[t])
                ebit    == RMul(revenue, margin[t])
                nopat   == RMul(ebit, RSub(R(1), tax))
                kept    == IF RLt(R(1), reinv[t]) THEN R(0)
                           ELSE RSub(R(1), reinv[t])
            IN  [Year |-> t,
                 GrowthRate |-> growth[t],
                 EBITMargin |-> margin[t],
                 ReinvestmentRate |-> reinv[t],
                 Revenue |-> revenue,
                 EBIT |-> ebit,
                 NOPAT |-> nopat,
                 FCF |-> RMul(nopat, kept)]]

\* lines 167-180: the projections frame, one row per year
Projection(revenue0, growth, margin, reinv, tax) ==
    LET factor == cumprod([t \in 1..Len(growth) |-> RAdd(R(1), growth[t])])
    IN  [t \in 1..Len(growth) |->
            LET revenue == RMul(revenue0, factor[t])
                ebit    == RMul(revenue, margin[t])
                nopat   == RMul(ebit, RSub(R(1), tax))
            IN  [Year |-> t,
                 GrowthRate |-> growth[t],
                 EBITMargin |-> margin[t],
                 ReinvestmentRate |-> reinv[t],
                 Revenue |-> revenue,
                 EBIT |-> ebit,
                 NOPAT |-> nopat,
                 FCF |-> RMul(nopat, RSub(R(1), reinv[t]))]]

\* Variant: the cash flows taken at face value, not discounted.
UndiscountedColumn(rows, r) == [t \in 1..Len(rows) |-> rows[t].FCF]

\* line 259: FCF / (1 + wacc) ** Year, per row
PVColumn(rows, r) ==
    [t \in 1..Len(rows) |-> RDiv(rows[t].FCF, RPow(RAdd(R(1), r), rows[t].Year))]

\* lines 258-282: the record of one scenario (r > g)
Scenario(name, r, rows, g, N, debt, cash, shares) ==
    LET pv_fcf         == RSum(PVColumn(rows, r))
        terminal_value == RDiv(RMul(rows[Len(rows)].FCF, RAdd(R(1), g)), RSub(r, g))
        pv_terminal    == RDiv(terminal_value, RPow(RAdd(R(1), r), N))
        firm_value     == RAdd(pv_fcf, pv_terminal)
        equity_value   == RAdd(RSub(firm_value, debt), cash)
    IN  [Scenario |-> name,
         WACC |-> r,
         PVofFCF |-> pv_fcf,
         TerminalValue |-> terminal_value,
         PVofTerminalValue |-> pv_terminal,
         FirmValue |-> firm_value,
         EquityValue |-> equity_value,
         SharePrice |-> RDiv(equity_value, shares)]

ScenarioNames == <<"Lower Bound", "Mid Estimate", "Upper Bound">>

\* lines 236-240: the dictionary of scenarios in its insertion order
wacc_scenarios == <<wacc_lower_input, wacc_mid_input, wacc_upper_input>>

\* Variant: the first row's price, the rows not filtered by name.
PriceOfFirstRow(rs, name) == rs[1].SharePrice

\* results_df[results_df['Scenario'] == name]['Share Price'].iloc[0]
PriceOf(rs, name) ==
    rs[CHOOSE i \in 1..Len(rs) :
          rs[i].Scenario = name /\ \A j \in 1..(i - 1) : rs[j].Scenario # name].SharePrice

(***************************************************************************)
(* The "Build DCF Model" handler (3_DCF_Valuation.py, lines 83-482)        *)
(***************************************************************************)
ClickBuildDCF ==
    /\ pc = "idle"
    /\ page' = "dcf"
    /\ pc' = "d_parse"
    /\ time_horizon' \in MinHorizon..MaxHorizon
    /\ ss_growth' \in GrowthChoices
    /\ eff_tax_rate' \in TaxChoicesD
    /\ wacc_lower_input' \in WaccChoices
    /\ wacc_mid_input' \in WaccChoices
    /\ wacc_upper_input' \in WaccChoices
    /\ growth_pattern_str' \in GrowthTexts(time_horizon')
    /\ ebit_margin_str' \in MarginTexts(time_horizon')
    /\ reinv_rate_str' \in ReinvTexts(time_horizon')
    /\ UNCHANGED <<console, requests, sidebarW, localsW, localsD>>

\* Variant: the error reports the two lengths in the opposite order.
LengthErrorsSwapped(g, m, r, N) ==
    IF Len(g) # N THEN <<Err("length", "Growth", <<Len(g), N>>)>>
    ELSE IF Len(m) # N THEN <<Err("length", "EBIT margin", <<Len(m), N>>)>>
    ELSE IF Len(r) # N THEN <<Err("length", "Reinvestment rate", <<Len(r), N>>)>>
    ELSE <<>>

\* Variant: the lengths tested in the opposite order.
LengthErrorsLastFirst(g, m, r, N) ==
    IF Len(r) # N THEN <<Err("length", "Reinvestment rate", <<N, Len(r)>>)>>
    ELSE IF Len(m) # N THEN <<Err("length", "EBIT margin", <<N, Len(m)>>)>>
    ELSE IF Len(g) # N THEN <<Err("length", "Growth", <<N, Len(g)>>)>>
    ELSE <<>>

\* lines 92-100: the first pattern whose length is not the horizon, as the
\* error that names it, or <<>> when the three lengths are the horizon
LengthErrors(g, m, r, N) ==
    IF Len(g) # N THEN <<Err("length", "Growth", <<N, Len(g)>>)>>
    ELSE IF Len(m) # N THEN <<Err("length", "EBIT margin", <<N, Len(m)>>)>>
    ELSE IF Len(r) # N THEN <<Err("length", "Reinvestment rate", <<N, Len(r)>>)>>
    ELSE <<>>

\* lines 86-104: the three patterns are parsed, then their lengths checked
DcfParse ==
    /\ pc = "d_parse"
    /\ IF \/ ParseRaises(growth_pattern_str)
          \/ ParseRaises(ebit_margin_str)
          \/ ParseRaises(reinv_rate_str)
       THEN \* the lists assigned before the ValueError keep their values
            /\ growth_pattern' = IF ParseRaises(growth_pattern_str) THEN <<>>
                                 ELSE ParsePattern(growth_pattern_str)
            /\ ebit_margin' = IF \/ ParseRaises(growth_pattern_str)
                                 \/ ParseRaises(ebit_margin_str) THEN <<>>
                              ELSE ParsePattern(ebit_margin_str)
            /\ reinv_rate_pattern' = <<>>
            /\ Stop(Err("parse", "", <<>>))
       ELSE /\ growth_pattern' = ParsePattern(growth_pattern_str)
            /\ ebit_margin' = ParsePattern(ebit_margin_str)
            /\ reinv_rate_pattern' = ParsePattern(reinv_rate_str)
            /\ LET bad == LengthErrors(growth_pattern', ebit_margin',
                                       reinv_rate_pattern', time_horizon)
               IN  IF bad # <<>>
                   THEN Stop(bad[1])
                   ELSE pc' = "d_fetch" /\ UNCHANGED errors
    /\ UNCHANGED <<page, out, warnings, requests, sidebarW, localsW, sidebarD,
                   fetchedD, valuedD, pricesD>>

\* DataFrame.iloc[-4:]: the last four rows, or all of them when fewer
LastFour(s) == SubSeq(s, IF Len(s) > 4 THEN Len(s) - 3 ELSE 1, Len(s))

otherW == <<market_cap, w_E, w_D, equityW, debtW, waccW>>

\* lines 106-153: the provider's figures, then section 1 of the page
DcfFetch ==
    /\ pc = "d_fetch"
    /\ \E info \in InfoChoicesD, stmt \in QuarterlyChoices :
        LET shares == Get(info, "sharesOutstanding", R(0)) IN
        /\ shares_outstanding' = shares
        /\ IF shares = R(0)
           THEN /\ Stop(Err("no_data", "shares_outstanding", <<>>))
                /\ requests' = Append(requests, "info")
                /\ UNCHANGED <<total_debt, total_cash, ltm_revenue, out>>
           ELSE /\ total_debt' = Get(info, "totalDebt", R(0))
                /\ total_cash' = Get(info, "totalCash", R(0))
                /\ requests' = requests \o <<"info", "quarterly_income_stmt">>
                /\ IF stmt.raises
                   THEN /\ Except
                        /\ UNCHANGED <<ltm_revenue, out>>
                   ELSE IF stmt.revenue = <<>>
                   THEN /\ Stop(Err("no_data", "quarterly_income_stmt", <<>>))
                        /\ UNCHANGED <<ltm_revenue, out>>
                   ELSE /\ ltm_revenue' = RSum(LastFour(stmt.revenue))
                        /\ out' = Append(out, "ltm")
                        /\ pc' = "d_project"
                        /\ UNCHANGED errors
    /\ UNCHANGED <<page, warnings, sidebarW, otherW, sidebarD, parsedD, valuedD,
                   pricesD>>

\* lines 158-250: the projection rows, section 2, the table of scenarios
DcfProject ==
    /\ pc = "d_project"
    /\ projections' = Projection(ltm_revenue, growth_pattern, ebit_margin,
                                 reinv_rate_pattern, eff_tax_rate)
    /\ out' = out \o <<"projections", "wacc_scenarios">>
    /\ results' = <<>>
    /\ pc' = "d_scenario"
    /\ UNCHANGED <<page, errors, warnings, requests, sidebarW, localsW, sidebarD,
                   parsedD, fetchedD, pv_columns, pricesD>>

\* Variant: the guard compares the rate with 0 instead of the growth rate.
GordonGuardAgainstZero(r, g) == RLe(r, R(0))

\* Variant: the guard refuses only a rate strictly below the growth rate.
GordonGuardStrict(r, g) == RLt(r, g)

\* line 254: the test made at the start of each pass of the loop
GordonGuardFails(r, g) == RLe(r, g)

\* lines 252-282: one pass of the loop over the scenarios
DcfScenario ==
    /\ pc = "d_scenario"
    /\ LET i == Len(results) + 1
           r == wacc_scenarios[i]
       IN  IF GordonGuardFails(r, ss_growth)
           THEN /\ Stop(Err("gordon", "", <<r, ss_growth>>))
                /\ UNCHANGED <<pv_columns, results>>
           ELSE /\ pv_columns' = Append(pv_columns,
                                   [name |-> ScenarioNames[i],
                                    values |-> PVColumn(projections, r)])
                /\ results' = Append(results,
                                Scenario(ScenarioNames[i], r, projections, ss_growth,
                                         time_horizon, total_debt, total_cash,
                                         shares_outstanding))
                /\ pc' = IF i = Len(wacc_scenarios) THEN "d_summary" ELSE "d_scenario"
                /\ UNCHANGED errors
    /\ UNCHANGED <<page, out, warnings, requests, sidebarW, localsW, sidebarD,
                   parsedD, fetchedD, projections, pricesD>>

\* lines 284-305: the frame of results and the valuation summary
DcfSummary ==
    /\ pc = "d_summary"
    /\ out' = Append(out, "valuation_summary")
    /\ pc' = "d_price"
    /\ UNCHANGED <<page, errors, warnings, requests, sidebarW, localsW, sidebarD,
                   localsD>>

\* lines 343-352: the verdict for a price that is not None and not 0
Verdict(price, low, high) ==
    IF RLt(price, low) THEN "Undervalued"
    ELSE IF RLt(high, price) THEN "Overvalued"
    ELSE "Fairly Valued"

\* lines 312-354: the current price, the three share prices, the verdict
DcfSharePrice ==
    /\ pc = "d_price"
    /\ requests' = Append(requests, "history_1d")
    /\ \E price \in CurrentPriceChoices :
        /\ current_price' = price
        /\ lower_price' = PriceOf(results, "Lower Bound")
        /\ mid_price' = PriceOf(results, "Mid Estimate")
        /\ upper_price' = PriceOf(results, "Upper Bound")
        /\ IF price # NoVal /\ price # R(0)
           THEN /\ valuation_msg' = Verdict(price, lower_price', upper_price')
                /\ out' = out \o <<"share_prices", "verdict">>
           ELSE /\ valuation_msg' = ""
                /\ out' = Append(out, "share_prices")
    /\ pc' = "d_chart"
    /\ UNCHANGED <<page, errors, warnings, sidebarW, localsW, sidebarD, parsedD,
                   fetchedD, valuedD>>

\* lines 359-479: the price chart (or its warning), the details, the downloads
DcfChart ==
    /\ pc = "d_chart"
    /\ requests' = Append(requests, "history_1y")
    /\ \E hist_1y \in HistoryChoices :
        IF hist_1y = "ok"
        THEN /\ out' = out \o <<"price_chart", "details", "downloads">>
             /\ UNCHANGED warnings
        ELSE /\ warnings' = Append(warnings, IF hist_1y = "empty"
                                             THEN "no_price_history"
                                             ELSE "no_price_chart")
             /\ out' = out \o <<"details", "downloads">>
    /\ pc' = "done"
    /\ UNCHANGED <<page, errors, sidebarW, localsW, sidebarD, localsD>>

(***************************************************************************)
(* The application                                                         *)
(***************************************************************************)
Init ==
    /\ page = "none" /\ pc = "idle"
    /\ out = <<>> /\ errors = <<>> /\ warnings = <<>> /\ requests = <<>>
    /\ rf = NoVal /\ emrp = NoVal /\ firm_rating = <<>> /\ marg_tax_rate = NoVal
    /\ market_cap = NoVal /\ total_debt = NoVal /\ w_E = NoVal /\ w_D = NoVal
    /\ stock_returns = <<>> /\ index_returns = <<>> /\ intercept = NoVal
    /\ beta = NoVal /\ beta_lower = NoVal /\ beta_upper = NoVal /\ r_squared = NoVal
    /\ cost_of_equity = NoVal /\ cost_of_equity_lower = NoVal
    /\ cost_of_equity_upper = NoVal
    /\ credit_spread = NoVal /\ cost_of_debt = NoVal
    /\ wacc = NoVal /\ wacc_lower = NoVal /\ wacc_upper = NoVal
    /\ time_horizon = 0 /\ ss_growth = NoVal /\ eff_tax_rate = NoVal
    /\ wacc_lower_input = NoVal /\ wacc_mid_input = NoVal /\ wacc_upper_input = NoVal
    /\ growth_pattern_str = <<>> /\ ebit_margin_str = <<>> /\ reinv_rate_str = <<>>
    /\ growth_pattern = <<>> /\ ebit_margin = <<>> /\ reinv_rate_pattern = <<>>
    /\ shares_outstanding = NoVal /\ total_cash = NoVal /\ ltm_revenue = NoVal
    /\ projections = <<>> /\ pv_columns = <<>> /\ results = <<>>
    /\ current_price = NoVal /\ lower_price = NoVal /\ mid_price = NoVal
    /\ upper_price = NoVal /\ valuation_msg = ""

\* Variant: the values of the ended run are kept for the next one.
RerunKeepingValues ==
    /\ Ended
    /\ page' = "none" /\ pc' = "idle"
    /\ UNCHANGED <<console, requests, sidebarW, localsW, sidebarD, localsD>>

\* the script runs again with no button pressed: the page shows its
\* introduction and nothing of the earlier run
Rerun ==
    /\ Ended
    /\ page' = "none" /\ pc' = "idle"
    /\ out' = <<>> /\ errors' = <<>> /\ warnings' = <<>> /\ requests' = <<>>
    /\ rf' = NoVal /\ emrp' = NoVal /\ firm_rating' = <<>> /\ marg_tax_rate' = NoVal
    /\ market_cap' = NoVal /\ total_debt' = NoVal /\ w_E' = NoVal /\ w_D' = NoVal
    /\ beta' = NoVal /\ beta_lower' = NoVal /\ beta_upper' = NoVal
    /\ r_squared' = NoVal
    /\ stock_returns' = <<>> /\ index_returns' = <<>> /\ intercept' = NoVal
    /\ cost_of_equity' = NoVal /\ cost_of_equity_lower' = NoVal
    /\ cost_of_equity_upper' = NoVal
    /\ credit_spread' = NoVal /\ cost_of_debt' = NoVal
    /\ wacc' = NoVal /\ wacc_lower' = NoVal /\ wacc_upper' = NoVal
    /\ time_horizon' = 0 /\ ss_growth' = NoVal /\ eff_tax_rate' = NoVal
    /\ wacc_lower_input' = NoVal /\ wacc_mid_input' = NoVal
    /\ wacc_upper_input' = NoVal
    /\ growth_pattern_str' = <<>> /\ ebit_margin_str' = <<>>
    /\ reinv_rate_str' = <<>>
    /\ growth_pattern' = <<>> /\ ebit_margin' = <<>> /\ reinv_rate_pattern' = <<>>
    /\ shares_outstanding' = NoVal /\ total_cash' = NoVal /\ ltm_revenue' = NoVal
    /\ projections' = <<>> /\ pv_columns' = <<>> /\ results' = <<>>
    /\ current_price' = NoVal /\ lower_price' = NoVal /\ mid_price' = NoVal
    /\ upper_price' = NoVal /\ valuation_msg' = ""

NextW == \/ ClickCalculateWACC
         \/ WaccCapitalStructure
         \/ WaccCostOfEquity
         \/ WaccCostOfDebt
         \/ WaccFinal
         \/ Rerun

NextD == \/ ClickBuildDCF
         \/ DcfParse
         \/ DcfFetch
         \/ DcfProject
         \/ DcfScenario
         \/ DcfSummary
         \/ DcfSharePrice
         \/ DcfChart
         \/ Rerun

Next == NextW \/ NextD

\* the application, a session on the WACC page, a session on the DCF page
Spec == Init /\ [][Next]_vars
SpecWACC == Init /\ [][NextW]_vars
SpecDCF == Init /\ [][NextD]_vars

(***************************************************************************)
(* Claims                                                                  *)
(***************************************************************************)
Emitted(section) == \E i \in 1..Len(out) : out[i] = section

\* some scenario's discount rate is not above the steady-state growth rate
SomeRateNotAboveGrowth ==
    \E i \in 1..Len(wacc_scenarios) : RLe(wacc_scenarios[i], ss_growth)

\* the run was ended by the Gordon-Growth error
GordonAbort ==
    pc = "stopped" /\ errors # <<>> /\ errors[Len(errors)].kind = "gordon"

\* C1 (as claimed): in a DCF run one of whose three discount rates is not
\* above g, no scenario is ever computed: no PV column and no scenario record
\* exists at any point of the run.
C1_NoScenarioBeforeGordonAbort ==
    (page = "dcf" /\ SomeRateNotAboveGrowth)
        => (results = <<>> /\ pv_columns = <<>>)

\* C2: in a DCF run one of whose three discount rates is not above g, the
\* valuation summary, the share prices and the verdict are never emitted, and
\* the run never reaches the steps that emit them.
C2_NoScenarioOutput ==
    (page = "dcf" /\ SomeRateNotAboveGrowth)
        => /\ ~Emitted("valuation_summary")
           /\ ~Emitted("share_prices")
           /\ ~Emitted("verdict")
           /\ lower_price = NoVal /\ mid_price = NoVal /\ upper_price = NoVal
           /\ valuation_msg = ""
           /\ pc \notin {"d_summary", "d_price", "d_chart", "done"}

\* a run aborted by the Gordon-Growth error on a later scenario, after the
\* record of an earlier scenario (whose own rate is above g) was computed
C2_Witness ==
    /\ page = "dcf" /\ GordonAbort
    /\ Len(results) = 2
    /\ RLt(ss_growth, wacc_lower_input)
    /\ ~Emitted("valuation_summary")

\* C3 (as claimed): a run that has ended in a fatal condition (st.stop()
\* after an error, or an exception reported by the handler) has emitted no
\* section of its report.
C3_NoPartialReport ==
    pc \in {"stopped", "failed"} => out = <<>>

\* the labels of the table after strip and lower
FoldedLabels ==
    [i \in 1..Len(credit_spreads) |-> Lower(Strip(credit_spreads[i].Rating))]

BandsMatching(rating) ==
    LET folded == Lower(Strip(rating))
    IN  {i \in 1..Len(credit_spreads) : FoldedLabels[i] = folded}

\* the WACC run has made its spread lookup
LookedUp == page = "wacc" /\ credit_spread # NoVal

\* C4: after the lookup of a rating that equals a band's label up to
\* surrounding blanks and case, the spread is that band's tabulated
\* percentage divided by 100, whatever the band's numeric range, and no
\* warning was emitted.
C4_LabelMatchGivesTabulatedSpread ==
    LookedUp =>
        \A i \in BandsMatching(firm_rating) :
            /\ credit_spread = RDiv(credit_spreads[i].Spread, R(100))
            /\ warnings = <<>>

\* a lookup of a label written in another case and between blanks
C4_Witness ==
    /\ LookedUp
    /\ firm_rating = <<" ", "b", "a", "a", "2", "/", "b", "b", "b", "\t">>
    /\ credit_spread = Rat(120, 10000)
    /\ warnings = <<>>

\* C5: after the lookup of a rating that matches no label the spread is 0,
\* exactly one warning and no error was emitted, the cost of debt is the
\* risk-free rate, and the run is not aborted: it is at the WACC step or has
\* completed it with its three WACC values output; a warning is emitted
\* exactly when no label matched.
C5_UnmatchedRatingFallsBack ==
    LookedUp =>
        /\ (BandsMatching(firm_rating) = {}) <=> (warnings # <<>>)
        /\ Len(warnings) <= 1
        /\ BandsMatching(firm_rating) = {} =>
              /\ credit_spread = R(0)
              /\ warnings = <<"no_spread_found">>
              /\ errors = <<>>
              /\ cost_of_debt = rf
              /\ pc \in {"w_wacc", "done"}
              /\ pc = "done" =>
                    /\ Emitted("wacc")
                    /\ wacc # NoVal /\ wacc_lower # NoVal /\ wacc_upper # NoVal

\* a completed WACC run whose rating matched no label
C5_Witness ==
    /\ page = "wacc" /\ pc = "done"
    /\ BandsMatching(firm_rating) = {}
    /\ warnings = <<"no_spread_found">>
    /\ cost_of_debt = rf
    /\ Emitted("wacc")

\* every pair of scenario records of the run: the one with the strictly
\* higher discount rate has the strictly lower firm value
FirmValueDecreasesInRate ==
    \A i, j \in 1..Len(results) :
        RLt(results[i].WACC, results[j].WACC)
            => RLt(results[j].FirmValue, results[i].FirmValue)

\* no projected free cash flow is negative and at least one is positive
FCFNonNegativeNotAllZero ==
    /\ \A t \in 1..Len(projections) : RLe(R(0), projections[t].FCF)
    /\ \E t \in 1..Len(projections) : RLt(R(0), projections[t].FCF)

\* C6 (as claimed): the scenarios of a run share the cash flows, the horizon
\* and g; for every projection the run accepts, the scenario with the higher
\* discount rate has the strictly lower firm value.
C6_FirmValueDecreasesForEveryProjection ==
    page = "dcf" => FirmValueDecreasesInRate

\* C6 (amended): the same, for projections whose free cash flows are all
\* non-negative and not all zero.
C6_FirmValueDecreasesForNonNegativeFCF ==
    (page = "dcf" /\ FCFNonNegativeNotAllZero) => FirmValueDecreasesInRate

\* two scenarios with different rates over cash flows 0, +, +, ...
C6_Witness ==
    /\ page = "dcf" /\ Len(results) >= 2
    /\ FCFNonNegativeNotAllZero
    /\ projections[1].FCF = R(0)
    /\ RLt(results[1].WACC, results[2].WACC)
    /\ RLt(results[2].FirmValue, results[1].FirmValue)

\* C7 (as claimed): a WACC run whose market value of equity plus market
\* value of debt is not positive ends in an error and outputs neither the
\* weights nor a WACC.
C7_NonPositiveCapitalAborts ==
    (page = "wacc" /\ market_cap # NoVal
        /\ RLe(RAdd(market_cap, total_debt), R(0)))
        => /\ pc \in {"stopped", "failed"}
           /\ w_E = NoVal /\ w_D = NoVal
           /\ ~Emitted("capital_structure") /\ ~Emitted("wacc")

\* C8 (as claimed): a DCF run whose shares outstanding are zero or negative
\* computes no share price.
C8_NonPositiveSharesNoPrice ==
    (page = "dcf" /\ shares_outstanding # NoVal
        /\ RLe(shares_outstanding, R(0)))
        => /\ results = <<>>
           /\ ~Emitted("share_prices")

\* C9 (as claimed): a run in which a required provider figure was missing or
\* zero (so that the code holds 0 for it) has ended in an error.
C9_MissingOrZeroFieldAborts ==
    (\/ page = "wacc" /\ (market_cap = R(0) \/ total_debt = R(0))
     \/ page = "dcf" /\ (shares_outstanding = R(0) \/ total_debt = R(0)
                            \/ total_cash = R(0)))
        => pc \in {"stopped", "failed"}

\* the three parsed patterns with the names the length errors give them
Patterns ==
    { [name |-> "Growth", values |-> growth_pattern],
      [name |-> "EBIT margin", values |-> ebit_margin],
      [name |-> "Reinvestment rate", values |-> reinv_rate_pattern] }

\* float() accepted every value of the three patterns (no ValueError)
PatternsParsed ==
    /\ page = "dcf" /\ pc # "d_parse"
    /\ \A i \in 1..Len(errors) : errors[i].kind # "parse"

WrongLength == {p \in Patterns : Len(p.values) # time_horizon}

NotNumeric(tok) ==
    LET s    == Strip(tok)
        body == IF s # <<>> /\ s[1] \in {"+", "-"} THEN Tail(s) ELSE s
        ds   == {i \in 1..Len(body) : body[i] \in {"0", "1", "2", "3", "4",
                                                     "5", "6", "7", "8", "9"}}
        ps   == {i \in 1..Len(body) : body[i] = "."}
    IN  ds = {} \/ Cardinality(ps) > 1 \/ ds \cup ps # 1..Len(body)

HasNonNumericToken(text) ==
    LET toks == Split(text) IN \E i \in 1..Len(toks) : NotNumeric(toks[i])

WeightsComputed == page = "wacc" /\ w_E # NoVal /\ w_D # NoVal

\* C12: when the market values of equity and of debt are both positive, the
\* two weights are those values over their sum, they add up to 1, and the
\* debt weight is 1 minus the equity weight (as values in exact arithmetic).
C12_WeightsSumToOne ==
    (WeightsComputed /\ RLt(R(0), market_cap) /\ RLt(R(0), total_debt))
        => /\ RMul(w_E, RAdd(market_cap, total_debt)) = market_cap
           /\ RMul(w_D, RAdd(market_cap, total_debt)) = total_debt
           /\ RAdd(w_E, w_D) = R(1)
           /\ w_D = RSub(R(1), w_E)

\* equity 3 and debt 1 (in millions): weights 3/4 and 1/4
C12_Witness ==
    /\ WeightsComputed
    /\ market_cap = R(3) /\ total_debt = R(1)
    /\ w_E = Rat(3, 4) /\ w_D = Rat(1, 4)

\* C13 (as claimed): in a WACC run that has output its WACC, the market
\* values of equity and debt behind the weights are not negative and each
\* weight lies between 0 and 1.
C13_WeightsWithinUnitInterval ==
    (page = "wacc" /\ Emitted("wacc"))
        => /\ RLe(R(0), market_cap) /\ RLe(R(0), total_debt)
           /\ RLe(R(0), w_E) /\ RLe(w_E, R(1))
           /\ RLe(R(0), w_D) /\ RLe(w_D, R(1))

\* a WACC run that has computed its three WACC values
WaccComputed == page = "wacc" /\ pc = "done" /\ Emitted("wacc")

BetaOrdered == RLe(beta_lower, beta) /\ RLe(beta, beta_upper)

\* C14 (as claimed): in a completed WACC run whose beta bounds satisfy
\* lower <= point <= upper, the WACC values satisfy lower <= point <= upper.
C14_WaccOrderedLikeBeta ==
    (WaccComputed /\ BetaOrdered)
        => RLe(wacc_lower, wacc) /\ RLe(wacc, wacc_upper)

\* the debt leg of the WACC: w_D * (rf + credit_spread) * (1 - marg_tax_rate)
DebtLeg ==
    RMul(RMul(w_D, RAdd(rf, credit_spread)), RSub(R(1), marg_tax_rate))

\* C15: in a completed WACC run each of the three WACC values is its equity
\* leg w_E * cost of equity plus the one debt leg, the cost of debt being the
\* risk-free rate plus the credit spread; so the differences are
\* wacc_upper - wacc = w_E * emrp * (beta_upper - beta) and
\* wacc - wacc_lower = w_E * emrp * (beta - beta_lower).
C15_SharedDebtLeg ==
    WaccComputed
        => /\ cost_of_debt = RAdd(rf, credit_spread)
           /\ RSub(wacc, RMul(w_E, cost_of_equity)) = DebtLeg
           /\ RSub(wacc_lower, RMul(w_E, cost_of_equity_lower)) = DebtLeg
           /\ RSub(wacc_upper, RMul(w_E, cost_of_equity_upper)) = DebtLeg
           /\ RSub(wacc_upper, wacc)
                = RMul(RMul(w_E, emrp), RSub(beta_upper, beta))
           /\ RSub(wacc, wacc_lower)
                = RMul(RMul(w_E, emrp), RSub(beta, beta_lower))

\* a completed run with debt, a tax rate, a spread and a beta interval that
\* is not a point: the three WACC values differ and the debt leg is not 0
C15_Witness ==
    /\ WaccComputed
    /\ RLt(beta, beta_upper) /\ RLt(R(0), emrp)
    /\ RLt(R(0), marg_tax_rate) /\ RLt(R(0), credit_spread)
    /\ RLt(R(0), w_D) /\ RLt(R(0), w_E)
    /\ RLt(R(0), DebtLeg)
    /\ RLt(wacc_lower, wacc) /\ RLt(wacc, wacc_upper)

\* the revenue a row starts from: the baseline for year 1, else the revenue
\* of the row before
RevenueBefore(t) == IF t = 1 THEN ltm_revenue ELSE projections[t - 1].Revenue

\* the projector applied to the example of one year: baseline 100, growth
\* 10%, margin 50%, reinvestment 20%, tax 20%
ProjectionExample ==
    Projection(R(100), <<Rat(1, 10)>>, <<Rat(1, 2)>>, <<Rat(1, 5)>>, Rat(1, 5))

\* C16: the projection of a DCF run has exactly N rows, numbered 1..N in
\* order; in row t the revenue is the revenue before it times 1 + growth[t],
\* EBIT is revenue times margin[t], NOPAT is EBIT times 1 - tax rate and FCF
\* is NOPAT times 1 - reinvestment[t].  For the example of one year the
\* projector gives revenue 110, EBIT 55, NOPAT 44 and FCF 35.2.
C16_ProjectionRecurrence ==
    /\ (page = "dcf" /\ projections # <<>>)
        => /\ Len(projections) = time_horizon
           /\ \A t \in 1..Len(projections) :
                /\ projections[t].Year = t
                /\ projections[t].Revenue
                     = RMul(RevenueBefore(t), RAdd(R(1), growth_pattern[t]))
                /\ projections[t].EBIT
                     = RMul(projections[t].Revenue, ebit_margin[t])
                /\ projections[t].NOPAT
                     = RMul(projections[t].EBIT, RSub(R(1), eff_tax_rate))
                /\ projections[t].FCF
                     = RMul(projections[t].NOPAT,
                            RSub(R(1), reinv_rate_pattern[t]))
    /\ Len(ProjectionExample) = 1
    /\ ProjectionExample[1].Year = 1
    /\ ProjectionExample[1].Revenue = R(110)
    /\ ProjectionExample[1].EBIT = R(55)
    /\ ProjectionExample[1].NOPAT = R(44)
    /\ ProjectionExample[1].FCF = Rat(176, 5)

\* a projection over growth rates 100%, -50%, 0%, ... of a baseline of 100
C16_Witness ==
    /\ page = "dcf" /\ Len(projections) = time_horizon /\ time_horizon >= MinHorizon
    /\ ltm_revenue = R(100)
    /\ projections[1].Revenue = R(200)
    /\ projections[2].Revenue = R(100)
    /\ projections[time_horizon].Year = time_horizon
    /\ RLt(R(0), projections[time_horizon].FCF)

\* the sum over the years 1..t of FCF(year) / (1 + r)^year
RECURSIVE DiscountedFCF(_, _)
DiscountedFCF(r, t) ==
    IF t = 0 THEN R(0)
    ELSE RAdd(DiscountedFCF(r, t - 1),
              RDiv(projections[t].FCF, RPow(RAdd(R(1), r), t)))

DcfCompleted == page = "dcf" /\ pc = "done"

\* C17: in a completed DCF run every scenario record, with r its discount
\* rate, N the horizon and g the steady-state growth rate, satisfies
\*   PV of FCF = sum over t = 1..N of FCF(t) / (1+r)^t,
\*   terminal value * (r - g) = FCF(N) * (1+g),
\*   PV of terminal value * (1+r)^N = terminal value,
\*   firm value = PV of FCF + PV of terminal value,
\*   equity value = firm value - total debt + total cash,
\*   share price * shares outstanding = equity value.
C17_ScenarioFormulas ==
    DcfCompleted =>
        \A i \in 1..Len(results) :
            LET s == results[i]
                r == s.WACC
                N == time_horizon
            IN  /\ s.PVofFCF = DiscountedFCF(r, N)
                /\ RMul(s.TerminalValue, RSub(r, ss_growth))
                     = RMul(projections[N].FCF, RAdd(R(1), ss_growth))
                /\ RMul(s.PVofTerminalValue, RPow(RAdd(R(1), r), N))
                     = s.TerminalValue
                /\ s.FirmValue = RAdd(s.PVofFCF, s.PVofTerminalValue)
                /\ s.EquityValue = RAdd(RSub(s.FirmValue, total_debt), total_cash)
                /\ RMul(s.SharePrice, shares_outstanding) = s.EquityValue

\* a completed run with debt 40, cash 20, 10 shares and a mid rate of 10%
\* over g = 0: the mid scenario's firm value is positive, its equity value
\* 20 less, its share price a tenth of that
C17_Witness ==
    /\ DcfCompleted /\ Len(results) = 3
    /\ ss_growth = R(0) /\ results[2].WACC = Rat(1, 10)
    /\ total_debt = R(40) /\ total_cash = R(20) /\ shares_outstanding = R(10)
    /\ RLt(R(0), results[2].PVofFCF) /\ RLt(R(0), results[2].TerminalValue)
    /\ results[2].EquityValue = RSub(results[2].FirmValue, R(20))
    /\ results[2].SharePrice = RDiv(results[2].EquityValue, R(10))

\* C18: in every state of a DCF run, every scenario record of the results
\* list (also while later scenarios are still to be evaluated) has a discount
\* rate strictly above the steady-state growth rate: r - g > 0.
C18_RecordedRateAboveGrowth ==
    page = "dcf" =>
        \A i \in 1..Len(results) :
            /\ RLt(ss_growth, results[i].WACC)
            /\ RLt(R(0), RSub(results[i].WACC, ss_growth))

\* the Lower Bound record exists while the Mid Estimate, whose rate is not
\* above g, is still to be evaluated
C18_Witness ==
    /\ page = "dcf" /\ pc = "d_scenario" /\ Len(results) = 1
    /\ RLt(ss_growth, results[1].WACC)
    /\ RLe(wacc_mid_input, ss_growth)

\* C19: a completed DCF run has exactly three scenario records, named Lower
\* Bound, Mid Estimate, Upper Bound in this order, each with the rate entered
\* for it, and the three share prices shown are those of the respective
\* records, whatever the order of the three rates.
C19_OneScenarioPerRate ==
    DcfCompleted
        => /\ Len(results) = 3 /\ Len(pv_columns) = 3
           /\ \A i \in 1..3 : /\ results[i].Scenario = ScenarioNames[i]
                              /\ pv_columns[i].name = ScenarioNames[i]
           /\ results[1].Scenario = "Lower Bound"
           /\ results[2].Scenario = "Mid Estimate"
           /\ results[3].Scenario = "Upper Bound"
           /\ results[1].WACC = wacc_lower_input
           /\ results[2].WACC = wacc_mid_input
           /\ results[3].WACC = wacc_upper_input
           /\ lower_price = results[1].SharePrice
           /\ mid_price = results[2].SharePrice
           /\ upper_price = results[3].SharePrice
           /\ Emitted("valuation_summary") /\ Emitted("share_prices")

\* a completed run whose rates were not entered in ascending order (the
\* lower bound's rate is above the middle estimate's), with different share
\* prices
C19_Witness ==
    /\ DcfCompleted
    /\ RLt(wacc_mid_input, wacc_lower_input)
    /\ RLt(wacc_mid_input, wacc_upper_input)
    /\ results[1].WACC = wacc_lower_input
    /\ RLt(lower_price, mid_price)
    /\ mid_price # upper_price

\* the provider gave no current price (ticker.history(period="1d") failed
\* or was empty)
NoCurrentPrice ==
    /\ page = "dcf"
    /\ \E i \in 1..Len(requests) : requests[i] = "history_1d"
    /\ current_price = NoVal

\* the provider gave no price history (ticker.history(period="1y") failed or
\* was empty)
NoPriceHistory ==
    /\ page = "dcf"
    /\ \E i \in 1..Len(warnings) :
          warnings[i] \in {"no_price_history", "no_price_chart"}

\* C20 (as claimed): a run in which the provider failed to supply the
\* current price or the price history has been aborted.
C20_ProviderFailureAborts ==
    (NoCurrentPrice \/ NoPriceHistory) => pc \in {"stopped", "failed"}

Bands == 1..Len(credit_spreads)

\* the table lists its bands in ascending order without overlap: each lower
\* limit is not above its own upper limit, and each upper limit is below
\* the next band's lower limit
BandsOrdered ==
    /\ \A i \in Bands :
          RLe(credit_spreads[i].GreaterThan, credit_spreads[i].LessThan)
    /\ \A i \in Bands \ {Len(credit_spreads)} :
          RLt(credit_spreads[i].LessThan, credit_spreads[i + 1].GreaterThan)

\* read as half-open intervals [GreaterThan, LessThan), consecutive bands
\* leave no score between them: no x with LessThan(i) <= x < GreaterThan(i+1)
BandsContiguous ==
    \A i \in Bands \ {Len(credit_spreads)} :
        ~RLt(credit_spreads[i].LessThan, credit_spreads[i + 1].GreaterThan)

\* C21 (as claimed): the bands of the table a lookup is made in are ordered
\* without overlap and, read as half-open intervals, leave no score
\* uncovered between the lowest and the highest band.
C21_BandsOrderedAndContiguous == LookedUp => (BandsOrdered /\ BandsContiguous)

\* C21 (amended): the bands of the table a lookup is made in are ordered
\* without overlap, and between every two consecutive bands the half-open
\* intervals leave a gap: the scores from the upper limit of a band up to
\* the lower limit of the next belong to no band.
C21_BandsOrderedWithGaps ==
    LookedUp =>
    /\ BandsOrdered
    /\ \A i \in Bands \ {Len(credit_spreads)} :
          /\ RLt(credit_spreads[i].LessThan, credit_spreads[i + 1].GreaterThan)
          /\ \A j \in Bands :
                ~(/\ RLe(credit_spreads[j].GreaterThan, credit_spreads[i].LessThan)
                  /\ RLt(credit_spreads[i].LessThan, credit_spreads[j].LessThan))

\* a lookup has been made in the table of 15 bands, whose first band ends at
\* 0.199999 and whose second begins at 0.2
C21_Witness ==
    /\ LookedUp
    /\ Len(credit_spreads) = 15
    /\ credit_spreads[1].LessThan = Rat(199999, 1000000)
    /\ credit_spreads[2].GreaterThan = Rat(1, 5)
    /\ RLt(credit_spreads[1].LessThan, credit_spreads[2].GreaterThan)

(***************************************************************************)
(* C22: an exact multiple of the index series is recovered by the fit      *)
(***************************************************************************)
\* the regression of a WACC run has been fitted
Fitted == page = "wacc" /\ beta # NoVal

\* at least two distinct index excess returns
TwoDistinct(x) == \E i, j \in 1..Len(x) : x[i] # x[j]

\* the factor of the stock series over the index series at a nonzero entry
beta_true ==
    LET i == CHOOSE i \in 1..Len(index_returns) : index_returns[i] # R(0)
    IN  RDiv(stock_returns[i], index_returns[i])

\* stock excess returns = beta_true * index excess returns, with no noise
ExactMultiple ==
    /\ Len(stock_returns) = Len(index_returns)
    /\ TwoDistinct(index_returns)
    /\ \A t \in 1..Len(index_returns) :
          stock_returns[t] = RMul(beta_true, index_returns[t])

\* C22 as stated: for an exact multiple of the index excess returns with at
\* least two distinct index returns, the fit gives beta = beta_true,
\* intercept 0 and R-squared 1.
C22_ExactFitRecovered ==
    (Fitted /\ ExactMultiple) =>
        /\ beta = beta_true
        /\ intercept = R(0)
        /\ r_squared = R(1)

\* C22 amended: beta = beta_true and intercept 0 always; R-squared is 1 when
\* beta_true is not 0, and is not a number (0/0) when beta_true is 0, the
\* stock's excess returns then being all zero.
C22_ExactFitRecoveredUnlessFlat ==
    (Fitted /\ ExactMultiple) =>
        /\ beta = beta_true
        /\ intercept = R(0)
        /\ beta_true # R(0) => r_squared = R(1)
        /\ beta_true = R(0) => r_squared = NoVal

C22_Witness ==
    /\ Fitted /\ ExactMultiple
    /\ beta_true = R(2) /\ beta = R(2) /\ intercept = R(0) /\ r_squared = R(1)

(***************************************************************************)
(* C23: empty or unaligned return series end the WACC run                  *)
(***************************************************************************)
\* the price histories have been requested, the series exist
SeriesBuilt ==
    /\ page = "wacc"
    /\ \E i \in 1..Len(requests) : requests[i] = "download_index"

UnusableSeries ==
    \/ Len(stock_returns) = 0
    \/ Len(index_returns) = 0
    \/ Len(stock_returns) # Len(index_returns)

\* C23: when the series handed to the regression are empty or of unequal
\* length, the run ends with the handler's error and shows no beta, no cost
\* of equity and no WACC.
C23_UnusableSeriesAbort ==
    (SeriesBuilt /\ UnusableSeries) =>
        /\ pc = "failed"
        /\ Len(errors) = 1 /\ errors[1].kind = "exception"
        /\ beta = NoVal /\ beta_lower = NoVal /\ beta_upper = NoVal
        /\ cost_of_equity = NoVal /\ wacc = NoVal
        /\ \A i \in 1..Len(out) : out[i] \notin {"cost_of_equity", "cost_of_debt", "wacc"}

C23_Witness ==
    /\ SeriesBuilt
    /\ Len(stock_returns) = 3 /\ Len(index_returns) = 2
    /\ pc = "failed" /\ wacc = NoVal
(***************************************************************************)
(* C24: the projector takes any numbers of the right length                *)
(***************************************************************************)
\* the three patterns are lists of numbers of the horizon's length and the
\* provider has given the shares and the revenue
ProjectorFed ==
    /\ PatternsParsed /\ WrongLength = {}
    /\ Emitted("ltm")

\* the product of a and b is negative, told from the signs of the factors
ProductNegative(a, b) ==
    \/ RLt(a, R(0)) /\ RLt(R(0), b)
    \/ RLt(R(0), a) /\ RLt(b, R(0))

\* C24: whatever numbers the three patterns of the right length hold, the
\* run is not ended before the projection of N rows is written and the loop
\* over the scenarios is entered (only the test of the rates against g can
\* stop it there), and FCF(t) is negative exactly when
\* NOPAT(t) * (1 - reinvestment[t]) is.
C24_NoBoundOnAssumptions ==
    (ProjectorFed /\ pc # "d_project") =>
        /\ Len(projections) = time_horizon
        /\ Emitted("projections")
        /\ \A i \in 1..Len(errors) : errors[i].kind = "gordon"
        /\ \A t \in 1..Len(projections) :
              /\ projections[t].ReinvestmentRate = reinv_rate_pattern[t]
              /\ RLt(projections[t].FCF, R(0))
                    <=> ProductNegative(projections[t].NOPAT,
                                        RSub(R(1), reinv_rate_pattern[t]))

\* a completed run with a reinvestment rate of 200%, a negative margin, a
\* negative growth rate, and cash flows of both signs
C24_Witness ==
    /\ ProjectorFed /\ pc = "done"
    /\ \E t \in 1..Len(projections) :
          /\ reinv_rate_pattern[t] = R(2)
          /\ RLt(R(0), projections[t].NOPAT)
          /\ RLt(projections[t].FCF, R(0))
    /\ \E t \in 1..Len(projections) :
          /\ RLt(ebit_margin[t], R(0))
          /\ RLt(R(0), projections[t].FCF)
    /\ \E t \in 1..Len(projections) : RLt(growth_pattern[t], R(0))
(***************************************************************************)
(* C25: a run is determined by its inputs and the provider's answers       *)
(***************************************************************************)
\* the parsing and the length tests are over, nothing else has been done
ParseStageOver ==
    /\ page = "dcf"
    /\ pc = "d_fetch" \/ (pc = "stopped" /\ requests = <<>>)

\* every text the sidebar's three fields can hold
PatternTexts ==
    UNION {GrowthTexts(N) \cup MarginTexts(N) \cup ReinvTexts(N) :
             N \in MinHorizon..MaxHorizon}

\* the parser applied to each of them, once
Parsed ==
    [text \in PatternTexts |->
        IF ParseRaises(text) THEN [raises |-> TRUE, values |-> <<>>]
        ELSE [raises |-> FALSE, values |-> ParsePattern(text)]]

\* the errors of that stage, from the sidebar's texts alone: the parse error,
\* else the first length error, else none
ParseStageErrors ==
    IF \/ Parsed[growth_pattern_str].raises
       \/ Parsed[ebit_margin_str].raises
       \/ Parsed[reinv_rate_str].raises
    THEN <<Err("parse", "", <<>>)>>
    ELSE LengthErrors(Parsed[growth_pattern_str].values,
                      Parsed[ebit_margin_str].values,
                      Parsed[reinv_rate_str].values, time_horizon)

\* the error of the loop over the scenarios, from the sidebar's rates alone:
\* the error for the first rate that is not above g, else none
ScenarioStageErrors ==
    IF SomeRateNotAboveGrowth
    THEN LET i == CHOOSE i \in 1..3 :
                    /\ RLe(wacc_scenarios[i], ss_growth)
                    /\ \A j \in 1..(i - 1) : ~RLe(wacc_scenarios[j], ss_growth)
         IN  <<Err("gordon", "", <<wacc_scenarios[i], ss_growth>>)>>
    ELSE <<>>

\* the run was ended by an answer of the provider
ProviderAbort ==
    errors # <<>> /\ errors[1].kind \in {"no_data", "exception"}

VerdictGiven == page = "dcf" /\ valuation_msg # ""

ScenarioPrices == {lower_price, mid_price, upper_price}

\* the lowest and the highest of the three share prices
LowestPrice == CHOOSE p \in ScenarioPrices : \A q \in ScenarioPrices : RLe(p, q)
HighestPrice == CHOOSE p \in ScenarioPrices : \A q \in ScenarioPrices : RLe(q, p)

\* C26 as stated: "Undervalued" is given only for a current price below all
\* three scenario share prices, "Overvalued" only for one above all three,
\* and "Fairly Valued" whenever the current price lies between the lowest and
\* the highest of them.
C26_VerdictMatchesRange ==
    VerdictGiven =>
        /\ valuation_msg = "Undervalued" => RLt(current_price, LowestPrice)
        /\ valuation_msg = "Overvalued" => RLt(HighestPrice, current_price)
        /\ (RLe(LowestPrice, current_price) /\ RLe(current_price, HighestPrice))
              => valuation_msg = "Fairly Valued"

(***************************************************************************)
(* C27: the order of the tests made before the provider is asked           *)
(***************************************************************************)
\* the three fields in the order of the code
Fields ==
    << [name |-> "Growth", text |-> growth_pattern_str],
       [name |-> "EBIT margin", text |-> ebit_margin_str],
       [name |-> "Reinvestment rate", text |-> reinv_rate_str] >>

\* the fields with a value that is no number, the fields of numbers whose
\* count is not the horizon
Unparsable == {i \in 1..3 : Parsed[Fields[i].text].raises}
Miscounted ==
    {i \in 1..3 : /\ ~Parsed[Fields[i].text].raises
                  /\ Len(Parsed[Fields[i].text].values) # time_horizon}

FirstOf(S) == CHOOSE i \in S : \A j \in S : i <= j

LengthErrorOf(i) ==
    Err("length", Fields[i].name,
        <<time_horizon, Len(Parsed[Fields[i].text].values)>>)

\* the parsing and the validation of a DCF run are over
Validated == page = "dcf" /\ pc # "d_parse"

\* C27 as stated: a run with a parse or length failure is stopped with no
\* request made and exactly one error, the one of the first failing field in
\* the order growth, EBIT margin, reinvestment.
C27_FirstFailingFieldReported ==
    (Validated /\ Unparsable \cup Miscounted # {}) =>
        /\ pc = "stopped"
        /\ requests = <<>>
        /\ LET i == FirstOf(Unparsable \cup Miscounted)
           IN  errors = IF i \in Unparsable THEN <<Err("parse", "", <<>>)>>
                        ELSE <<LengthErrorOf(i)>>

\* C27 amended: a run with a parse or length failure is stopped with no
\* request made and exactly one error: the parse error when any of the three
\* fields has a value that is no number, whatever the lengths, and otherwise
\* the length error of the first field of wrong length in the order growth,
\* EBIT margin, reinvestment; a run that has made a request has no such
\* failure.
C27_ParseErrorsBeforeLengthErrors ==
    Validated =>
        /\ (Unparsable \cup Miscounted # {}) =>
              /\ pc = "stopped"
              /\ requests = <<>>
              /\ errors = IF Unparsable # {} THEN <<Err("parse", "", <<>>)>>
                          ELSE <<LengthErrorOf(FirstOf(Miscounted))>>
        /\ requests # <<>> => (Unparsable = {} /\ Miscounted = {})

\* growth too short and a later field not numeric: the parse error is given
C27_Witness ==
    /\ Validated
    /\ 1 \in Miscounted /\ Unparsable # {} /\ 1 \notin Unparsable
    /\ pc = "stopped" /\ requests = <<>>
    /\ errors = <<Err("parse", "", <<>>)>>
(***************************************************************************)
(* C28: the labels of the table are distinct                               *)
(***************************************************************************)
\* no two bands have labels equal after strip and lower
LabelsDistinct ==
    \A i, j \in Bands : i # j => FoldedLabels[i] # FoldedLabels[j]

\* the table in the opposite order
ReversedSpreads ==
    [i \in Bands |-> credit_spreads[Len(credit_spreads) + 1 - i]]

\* C28: no two bands have labels equal after trimming and case folding; a
\* rating matches at most one band, the lookup gives that band's spread, and
\* the scan of the table in the opposite order gives the same spread.
C28_UniqueLabelsOrderFree ==
    LookedUp =>
        /\ LabelsDistinct
        /\ Cardinality(BandsMatching(firm_rating)) <= 1
        /\ \A i \in BandsMatching(firm_rating) :
              credit_spread = RDiv(credit_spreads[i].Spread, R(100))
        /\ credit_spread = get_credit_spread(firm_rating, ReversedSpreads).spread

\* a lookup of the first band's label in lower case: one band matches, and
\* the scan from the other end finds it last
C28_Witness ==
    /\ LookedUp
    /\ firm_rating = <<" ", "d", "2", "/", "d", "\t">>
    /\ BandsMatching(firm_rating) = {1}
    /\ credit_spread = Rat(19, 100)
    /\ get_credit_spread(firm_rating, ReversedSpreads).spread = Rat(19, 100)
====
